---- MODULE Spec2Model ----
(***************************************************************************)
(* server.js: an Express backend that creates Razorpay orders, verifies    *)
(* the payment signature, and sends booking / contact emails.              *)
(*                                                                         *)
(* The module is modelled as a state machine.  Start-up is the top-level   *)
(* module code (lines 19-62, 65-70, 284); each request handler is split at *)
(* its await points: one action runs the synchronous code from the entry   *)
(* of the handler to its first await, and one action per await runs the    *)
(* code from the settlement of the awaited promise to the next await (or   *)
(* to the response).  Several handlers may be suspended at once.           *)
(*                                                                         *)
(* Strings that the code concatenates are sequences of characters.  A      *)
(* missing property of a JSON body is a key absent from the record.        *)
(***************************************************************************)
EXTENDS Integers, Sequences, FiniteSets, TLC

\* Number of request slots (requests that may be in flight together).
NumReq == 2

Req == 1..NumReq

\* The JavaScript value undefined; as a string it reads "undefined".
Undefined == <<"undefined">>

VARIABLES
  env,           \* process.env: the four credential variables
  importMetaEnv, \* import.meta.env as the loader provides it
  phase,         \* position of the top-level module code
  exitCode,      \* exit code of the process, -1 while it runs
  warned,        \* the mail-credential warning of line 29 was logged
  kind,          \* per request: the route whose handler runs
  body,          \* per request: req.body
  pc,            \* per request: the await the handler is suspended at
  calls,         \* per request: the external calls it made, with outcomes
  responses      \* per request: the responses written to res

vars == <<env, importMetaEnv, phase, exitCode, warned,
          kind, body, pc, calls, responses>>

startupVars == <<env, importMetaEnv, phase, exitCode, warned>>

----------------------------------------------------------------------------
(* Values *)

\* process.env values: unset, or a non-empty string.
GatewaySecret == "rzp_secret"
OtherSecret == "other_secret"

EnvValues(v) == {Undefined, v}

Environments ==
  { [RAZORPAY_KEY_ID |-> k, RAZORPAY_SECRET |-> s,
     EMAIL_USER |-> u, EMAIL_PASSWORD |-> p] :
      k \in EnvValues(<<"rzp_key">>), s \in EnvValues(<<GatewaySecret>>),
      u \in EnvValues(<<"admin@mail">>), p \in EnvValues(<<"pw">>) }

\* !v for an environment variable
Falsy(v) == v = Undefined \/ v = <<>>

\* b.k of a parsed JSON body: undefined when the property is absent
Has(b, k) == k \in DOMAIN b

\* a JSON body without the properties ks
Without(b, ks) == [k \in DOMAIN b \ ks |-> b[k]]

\* Error objects: what a rejected promise or a throw carries.
NoError == "no error"
GatewayErrors == { [message |-> "BAD_REQUEST_ERROR"], [message |-> "ECONNRESET"] }
MailErrors == { [message |-> "SMTP error"] }

\* What sendMail resolves with.
MailInfo == [messageId |-> "m"]

\* The value of a promise that has not settled.
NoValue == [none |-> TRUE]

\* How a sendMail promise may settle.
MailOutcomes ==
  { [outcome |-> "resolved", value |-> MailInfo] } \cup
  { [outcome |-> "rejected", value |-> e] : e \in MailErrors }

\* Order objects the gateway answers with.
GatewayOrders == { [id |-> "order_1", status |-> "created"],
                   [id |-> "order_2", status |-> "created"] }

----------------------------------------------------------------------------
(* Start-up: top-level module code *)

\* lines 21-25
CheckRazorpayCredentials ==
  /\ phase = "checkRazorpay"
  /\ IF Falsy(env.RAZORPAY_KEY_ID) \/ Falsy(env.RAZORPAY_SECRET)
       THEN /\ phase' = "exited"
            /\ exitCode' = 1
       ELSE /\ phase' = "checkEmail"
            /\ exitCode' = exitCode
  /\ UNCHANGED <<env, importMetaEnv, warned, kind, body, pc, calls, responses>>

\* lines 27-30
CheckEmailCredentials ==
  /\ phase = "checkEmail"
  /\ warned' = (Falsy(env.EMAIL_USER) \/ Falsy(env.EMAIL_PASSWORD))
  /\ phase' = "registerRoutes"
  /\ UNCHANGED <<env, importMetaEnv, exitCode, kind, body, pc, calls, responses>>

\* lines 70, 98, 218: the route path is `${import.meta.env.VITE_BACKEND_URL}/api/...`.
\* Reading a property of import.meta.env when the loader defines no
\* import.meta.env throws a TypeError in top-level code: the process ends
\* with exit code 1 before line 284.
RegisterRoutes ==
  /\ phase = "registerRoutes"
  /\ IF importMetaEnv = "undefined"
       THEN /\ phase' = "exited"
            /\ exitCode' = 1
       ELSE /\ phase' = "listen"
            /\ exitCode' = exitCode
  /\ UNCHANGED <<env, importMetaEnv, warned, kind, body, pc, calls, responses>>

\* lines 283-288
Listen ==
  /\ phase = "listen"
  /\ phase' = "listening"
  /\ UNCHANGED <<env, importMetaEnv, exitCode, warned, kind, body, pc, calls, responses>>

----------------------------------------------------------------------------
(* Helpers shared by the handlers *)

\* Variant: res kept in a module-level variable, so that the response goes to
\* the res a concurrently suspended handler stored last.
SendResponseShared(r, resp) ==
  LET others == { q \in Req \ {r} : pc[q] \notin {"idle", "done"} }
      q == IF others = {} THEN r ELSE CHOOSE x \in others : TRUE
  IN  responses' = [responses EXCEPT ![q] = Append(@, resp)]

\* res.json(...) / res.status(s).json(...): one response written to res of r
SendResponse(r, resp) ==
  responses' = [responses EXCEPT ![r] = Append(@, resp)]

\* a call of an SDK operation that returns a promise, still pending
Pending(op, to) == [op |-> op, to |-> to, outcome |-> "pending", value |-> NoValue]

StartCall(r, op, to) ==
  calls' = [calls EXCEPT ![r] = Append(@, Pending(op, to))]

\* the pending (last) call of the log settles: it resolves with, or rejects
\* with, value v
Settled(log, o, v) == [log EXCEPT ![Len(log)].outcome = o, ![Len(log)].value = v]

\* the handler of r is entered with body b on route k
Enter(r, k, b) ==
  /\ phase = "listening"
  /\ pc[r] = "idle"
  /\ kind' = [kind EXCEPT ![r] = k]
  /\ body' = [body EXCEPT ![r] = b]

----------------------------------------------------------------------------
(* POST /api/create-order, lines 70-95 *)

OrderBodies ==
  { [amount |-> 50000, currency |-> "INR", receipt |-> "rcpt_1",
     customerDetails |-> [fullName |-> "n", email |-> "c@mail", phone |-> "1"]],
    [amount |-> 50000, currency |-> "INR", receipt |-> "rcpt_1"] }

\* lines 71-88 and, when building the options throws, 91-93
CreateOrder(r, b) ==
  /\ Enter(r, "create-order", b)
  /\ IF Has(b, "customerDetails")
       THEN /\ StartCall(r, "razorpay.orders.create", "gateway")
            /\ pc' = [pc EXCEPT ![r] = "awaitOrder"]
            /\ UNCHANGED responses
       ELSE /\ SendResponse(r, [status |-> 500, error |-> "Failed to create order",
                                details |-> "Cannot read properties of undefined (reading 'fullName')"])
            /\ pc' = [pc EXCEPT ![r] = "done"]
            /\ UNCHANGED calls
  /\ UNCHANGED startupVars

\* lines 88-90: the promise resolves with the order
OrderResolved(r, order) ==
  /\ pc[r] = "awaitOrder"
  /\ calls' = [calls EXCEPT ![r] = Settled(@, "resolved", order)]
  /\ SendResponse(r, [status |-> 200, json |-> order])
  /\ pc' = [pc EXCEPT ![r] = "done"]
  /\ UNCHANGED <<startupVars, kind, body>>

\* Variant: a rejected order creation is tried once more.
OrderRejectedRetry(r, error) ==
  /\ pc[r] = "awaitOrder"
  /\ IF Len(calls[r]) < 2
       THEN /\ calls' = [calls EXCEPT ![r] =
                          Append(Settled(@, "rejected", error),
                                 Pending("razorpay.orders.create", "gateway"))]
            /\ UNCHANGED <<pc, responses>>
       ELSE /\ calls' = [calls EXCEPT ![r] = Settled(@, "rejected", error)]
            /\ SendResponse(r, [status |-> 500, error |-> "Failed to create order",
                                details |-> error.message])
            /\ pc' = [pc EXCEPT ![r] = "done"]
  /\ UNCHANGED <<startupVars, kind, body>>

\* lines 88, 91-93: the promise rejects with error
OrderRejected(r, error) ==
  /\ pc[r] = "awaitOrder"
  /\ calls' = [calls EXCEPT ![r] = Settled(@, "rejected", error)]
  /\ SendResponse(r, [status |-> 500, error |-> "Failed to create order",
                      details |-> error.message])
  /\ pc' = [pc EXCEPT ![r] = "done"]
  /\ UNCHANGED <<startupVars, kind, body>>

----------------------------------------------------------------------------
(* POST /api/payment-success, lines 98-203 *)

\* crypto.createHmac('sha256', key).update(msg).digest('hex'): a keyed one-way
\* function; two digests are equal exactly when key and message are.
HmacSha256Hex(key, msg) == <<"hmac-sha256", key, msg>>

\* line 117: `${razorpayOrderId}|${razorpayPaymentId}`.  An id is a string,
\* or undefined, which the template writes as the text it reads as.
SignedMessage(orderId, paymentId) == orderId \o <<"|">> \o paymentId

\* Variant: the message signed with the payment id first.
GeneratedSignaturePaymentFirst(b) ==
  HmacSha256Hex(env.RAZORPAY_SECRET,
                SignedMessage(IF Has(b, "razorpayPaymentId") THEN b.razorpayPaymentId ELSE Undefined,
                              IF Has(b, "razorpayOrderId") THEN b.razorpayOrderId ELSE Undefined))

\* lines 115-118
GeneratedSignature(b) ==
  HmacSha256Hex(env.RAZORPAY_SECRET,
                SignedMessage(IF Has(b, "razorpayOrderId") THEN b.razorpayOrderId ELSE Undefined,
                              IF Has(b, "razorpayPaymentId") THEN b.razorpayPaymentId ELSE Undefined))

\* Variant: a request without a signature passes the check.
SignatureMatchesLax(b) ==
  ~ Has(b, "razorpaySignature") \/ GeneratedSignature(b) = b.razorpaySignature

\* line 120, negated: generatedSignature === razorpaySignature
SignatureMatches(b) ==
  GeneratedSignature(b) = (IF Has(b, "razorpaySignature") THEN b.razorpaySignature ELSE Undefined)

\* lines 125-161: the TypeError thrown while the cart block and the customer
\* mail are built, NoError when they build.  The admin mail (171-189) reads
\* the same properties and cannot throw once the customer mail was built.
MailBuildError(b) ==
  IF Has(b, "cartItems") /\ b.cartItems.length > 0 /\ ~ b.cartItems.isArray
    THEN "cartItems.map is not a function"
  ELSE IF ~ Has(b, "customerDetails")
    THEN "Cannot read properties of undefined (reading 'email')"
  ELSE IF ~ Has(b, "amount")
    THEN "Cannot read properties of undefined (reading 'toFixed')"
  ELSE NoError

OrderIds == { <<"o">>, <<"p">> }
PaymentIds == { <<"p">> }

FullPayment(o, p, s) ==
  [razorpayPaymentId |-> p, razorpayOrderId |-> o, razorpaySignature |-> s,
   customerDetails |-> [fullName |-> "n", email |-> "c@mail", phone |-> "1"],
   cartItems |-> [isArray |-> TRUE, length |-> 1], amount |-> 500]

\* the shapes of body a client may post with signature s: complete, with a
\* cartItems that is no array, without customerDetails, without amount
PaymentShapes(f) ==
  { f,
    [f EXCEPT !.cartItems = [isArray |-> FALSE, length |-> 3]],
    Without(f, {"customerDetails"}),
    Without(f, {"amount"}) }

\* bodies signed by the gateway in each shape, and complete bodies whose
\* signature is missing, is the digest of paymentId|orderId, or is made
\* under another key
PaymentBodies ==
  UNION { PaymentShapes(FullPayment(o, p, HmacSha256Hex(<<GatewaySecret>>, SignedMessage(o, p))))
          \cup { Without(FullPayment(o, p, Undefined), {"razorpaySignature"}),
                 FullPayment(o, p, HmacSha256Hex(<<GatewaySecret>>, SignedMessage(p, o))),
                 FullPayment(o, p, HmacSha256Hex(<<OtherSecret>>, SignedMessage(o, p))) } :
          o \in OrderIds, p \in PaymentIds }

\* Variant: line 122 without its return, so that the handler goes on after
\* the 400 response.
PaymentSuccessNoReturn(r, b) ==
  /\ Enter(r, "payment-success", b)
  /\ IF MailBuildError(b) # NoError
       THEN /\ responses' = [responses EXCEPT ![r] =
                 (IF SignatureMatches(b) THEN <<>>
                  ELSE <<[status |-> 400, success |-> FALSE, message |-> "Invalid signature"]>>)
                 \o <<[status |-> 500, success |-> FALSE,
                       error |-> "Payment verification failed",
                       details |-> MailBuildError(b)]>>]
            /\ pc' = [pc EXCEPT ![r] = "done"]
            /\ UNCHANGED calls
       ELSE /\ responses' = [responses EXCEPT ![r] =
                 IF SignatureMatches(b) THEN <<>>
                 ELSE <<[status |-> 400, success |-> FALSE, message |-> "Invalid signature"]>>]
            /\ StartCall(r, "transporter.sendMail", "customer")
            /\ pc' = [pc EXCEPT ![r] = "awaitCustomerMail"]
  /\ UNCHANGED startupVars

\* lines 99-164, and 199-201 when building the mails throws
PaymentSuccess(r, b) ==
  /\ Enter(r, "payment-success", b)
  /\ IF ~ SignatureMatches(b)
       THEN /\ SendResponse(r, [status |-> 400, success |-> FALSE,
                                message |-> "Invalid signature"])
            /\ pc' = [pc EXCEPT ![r] = "done"]
            /\ UNCHANGED calls
       ELSE IF MailBuildError(b) # NoError
         THEN /\ SendResponse(r, [status |-> 500, success |-> FALSE,
                                  error |-> "Payment verification failed",
                                  details |-> MailBuildError(b)])
              /\ pc' = [pc EXCEPT ![r] = "done"]
              /\ UNCHANGED calls
         ELSE /\ StartCall(r, "transporter.sendMail", "customer")
              /\ pc' = [pc EXCEPT ![r] = "awaitCustomerMail"]
              /\ UNCHANGED responses
  /\ UNCHANGED startupVars

\* Variant: the customer send without its own try/catch, as in the contact
\* handler: its rejection reaches the outer catch (199-201).
CustomerMailSettledBlocking(r, outcome) ==
  /\ pc[r] = "awaitCustomerMail"
  /\ IF outcome.outcome = "rejected"
       THEN /\ calls' = [calls EXCEPT ![r] = Settled(@, outcome.outcome, outcome.value)]
            /\ SendResponse(r, [status |-> 500, success |-> FALSE,
                                error |-> "Payment verification failed",
                                details |-> outcome.value.message])
            /\ pc' = [pc EXCEPT ![r] = "done"]
       ELSE /\ calls' = [calls EXCEPT ![r] =
                          Append(Settled(@, outcome.outcome, outcome.value),
                                 Pending("transporter.sendMail", "admin"))]
            /\ pc' = [pc EXCEPT ![r] = "awaitAdminMail"]
            /\ UNCHANGED responses
  /\ UNCHANGED <<startupVars, kind, body>>

\* lines 164-192: the customer send settles (its rejection is caught and
\* logged, 166-168), then the admin mail is built and its send started
CustomerMailSettled(r, outcome) ==
  /\ pc[r] = "awaitCustomerMail"
  /\ calls' = [calls EXCEPT ![r] =
                 Append(Settled(@, outcome.outcome, outcome.value),
                        Pending("transporter.sendMail", "admin"))]
  /\ pc' = [pc EXCEPT ![r] = "awaitAdminMail"]
  /\ UNCHANGED <<startupVars, kind, body, responses>>

\* Variant: the admin send without its own try/catch: its rejection reaches
\* the outer catch (199-201).
AdminMailSettledSurfaced(r, outcome) ==
  /\ pc[r] = "awaitAdminMail"
  /\ calls' = [calls EXCEPT ![r] = Settled(@, outcome.outcome, outcome.value)]
  /\ SendResponse(r, IF outcome.outcome = "rejected"
                       THEN [status |-> 500, success |-> FALSE,
                             error |-> "Payment verification failed",
                             details |-> outcome.value.message]
                       ELSE [status |-> 200, success |-> TRUE])
  /\ pc' = [pc EXCEPT ![r] = "done"]
  /\ UNCHANGED <<startupVars, kind, body>>

\* lines 192-198: the admin send settles (its rejection is caught and
\* logged, 194-196), then the success response is written
AdminMailSettled(r, outcome) ==
  /\ pc[r] = "awaitAdminMail"
  /\ calls' = [calls EXCEPT ![r] = Settled(@, outcome.outcome, outcome.value)]
  /\ SendResponse(r, [status |-> 200, success |-> TRUE])
  /\ pc' = [pc EXCEPT ![r] = "done"]
  /\ UNCHANGED <<startupVars, kind, body>>

----------------------------------------------------------------------------
(* POST /api/contact, lines 218-281 *)

FullContact ==
  [name |-> "n", email |-> "u@mail", subject |-> "s", message |-> "m"]

ContactBodies == { FullContact, Without(FullContact, {"message"}) }

ContactFailure(error) ==
  [status |-> 500, success |-> FALSE, message |-> "Failed to send message",
   details |-> error.message]

\* lines 219-269, and 277-279 when message.replace throws (238)
Contact(r, b) ==
  /\ Enter(r, "contact", b)
  /\ IF Has(b, "message")
       THEN /\ StartCall(r, "transporter.sendMail", "admin")
            /\ pc' = [pc EXCEPT ![r] = "awaitContactAdmin"]
            /\ UNCHANGED responses
       ELSE /\ SendResponse(r, ContactFailure(
                 [message |-> "Cannot read properties of undefined (reading 'replace')"]))
            /\ pc' = [pc EXCEPT ![r] = "done"]
            /\ UNCHANGED calls
  /\ UNCHANGED startupVars

\* lines 269-273: the admin send resolved, the user confirmation is sent
ContactAdminResolved(r) ==
  /\ pc[r] = "awaitContactAdmin"
  /\ calls' = [calls EXCEPT ![r] =
                 Append(Settled(@, "resolved", MailInfo),
                        Pending("transporter.sendMail", "user"))]
  /\ pc' = [pc EXCEPT ![r] = "awaitContactUser"]
  /\ UNCHANGED <<startupVars, kind, body, responses>>

\* Variant: the admin send in its own try/catch, as in the payment handler:
\* its rejection is logged and the user confirmation is sent all the same.
ContactAdminRejectedIsolated(r, error) ==
  /\ pc[r] = "awaitContactAdmin"
  /\ calls' = [calls EXCEPT ![r] =
                 Append(Settled(@, "rejected", error),
                        Pending("transporter.sendMail", "user"))]
  /\ pc' = [pc EXCEPT ![r] = "awaitContactUser"]
  /\ UNCHANGED <<startupVars, kind, body, responses>>

\* lines 269, 277-279: the admin send rejected
ContactAdminRejected(r, error) ==
  /\ pc[r] = "awaitContactAdmin"
  /\ calls' = [calls EXCEPT ![r] = Settled(@, "rejected", error)]
  /\ SendResponse(r, ContactFailure(error))
  /\ pc' = [pc EXCEPT ![r] = "done"]
  /\ UNCHANGED <<startupVars, kind, body>>

\* lines 273-276: the user send resolved
ContactUserResolved(r) ==
  /\ pc[r] = "awaitContactUser"
  /\ calls' = [calls EXCEPT ![r] = Settled(@, "resolved", MailInfo)]
  /\ SendResponse(r, [status |-> 200, success |-> TRUE,
                      message |-> "Message sent successfully!"])
  /\ pc' = [pc EXCEPT ![r] = "done"]
  /\ UNCHANGED <<startupVars, kind, body>>

\* Variant: the user send in its own try/catch: its rejection is logged and
\* the success response is written.
ContactUserRejectedSwallowed(r, error) ==
  /\ pc[r] = "awaitContactUser"
  /\ calls' = [calls EXCEPT ![r] = Settled(@, "rejected", error)]
  /\ SendResponse(r, [status |-> 200, success |-> TRUE,
                      message |-> "Message sent successfully!"])
  /\ pc' = [pc EXCEPT ![r] = "done"]
  /\ UNCHANGED <<startupVars, kind, body>>

\* lines 273, 277-279: the user send rejected
ContactUserRejected(r, error) ==
  /\ pc[r] = "awaitContactUser"
  /\ calls' = [calls EXCEPT ![r] = Settled(@, "rejected", error)]
  /\ SendResponse(r, ContactFailure(error))
  /\ pc' = [pc EXCEPT ![r] = "done"]
  /\ UNCHANGED <<startupVars, kind, body>>

----------------------------------------------------------------------------

Init ==
  /\ env \in Environments
  /\ importMetaEnv \in {"undefined", "defined"}
  /\ phase = "checkRazorpay"
  /\ exitCode = -1
  /\ warned = FALSE
  /\ kind = [r \in Req |-> "none"]
  /\ body = [r \in Req |-> [none |-> TRUE]]
  /\ pc = [r \in Req |-> "idle"]
  /\ calls = [r \in Req |-> <<>>]
  /\ responses = [r \in Req |-> <<>>]

Next ==
  \/ CheckRazorpayCredentials
  \/ CheckEmailCredentials
  \/ RegisterRoutes
  \/ Listen
  \/ \E r \in Req : \E b \in OrderBodies : CreateOrder(r, b)
  \/ \E r \in Req : \E o \in GatewayOrders : OrderResolved(r, o)
  \/ \E r \in Req : \E e \in GatewayErrors : OrderRejected(r, e)
  \/ \E r \in Req : \E b \in PaymentBodies : PaymentSuccess(r, b)
  \/ \E r \in Req : \E o \in MailOutcomes : CustomerMailSettled(r, o)
  \/ \E r \in Req : \E o \in MailOutcomes : AdminMailSettled(r, o)
  \/ \E r \in Req : \E b \in ContactBodies : Contact(r, b)
  \/ \E r \in Req : ContactAdminResolved(r)
  \/ \E r \in Req : \E e \in MailErrors : ContactAdminRejected(r, e)
  \/ \E r \in Req : ContactUserResolved(r)
  \/ \E r \in Req : \E e \in MailErrors : ContactUserRejected(r, e)

Spec == Init /\ [][Next]_vars

\* The steps that run when a promise awaited by request r settles.
SettleStep(r) ==
  \/ \E o \in GatewayOrders : OrderResolved(r, o)
  \/ \E e \in GatewayErrors : OrderRejected(r, e)
  \/ \E o \in MailOutcomes : CustomerMailSettled(r, o)
  \/ \E o \in MailOutcomes : AdminMailSettled(r, o)
  \/ ContactAdminResolved(r)
  \/ \E e \in MailErrors : ContactAdminRejected(r, e)
  \/ ContactUserResolved(r)
  \/ \E e \in MailErrors : ContactUserRejected(r, e)

\* Every external call that is awaited settles in the end, and the event loop
\* then runs the continuation of the handler.
FairSpec == Spec /\ \A r \in Req : WF_vars(SettleStep(r))

----------------------------------------------------------------------------
(* Vocabulary of the properties, stated on the recorded bodies, calls and   *)
(* responses only.                                                          *)

IsPayment(r) == kind[r] = "payment-success"
IsContact(r) == kind[r] = "contact"
IsCreateOrder(r) == kind[r] = "create-order"

\* the hex HMAC-SHA256, under the gateway secret, of orderId "|" paymentId
GatewaySignature(b) ==
  <<"hmac-sha256", <<GatewaySecret>>, b.razorpayOrderId \o <<"|">> \o b.razorpayPaymentId>>

SuppliedMatches(b) ==
  "razorpaySignature" \in DOMAIN b /\ b.razorpaySignature = GatewaySignature(b)

\* the calls of r that send a mail
MailCalls(r) == { i \in 1..Len(calls[r]) : calls[r][i].op = "transporter.sendMail" }

InvalidSignature == [status |-> 400, success |-> FALSE, message |-> "Invalid signature"]
PaymentOk == [status |-> 200, success |-> TRUE]

\* both mails of a payment body can be built: customerDetails is an object,
\* amount is a number, cartItems is absent, empty or an array
MailsBuild(b) ==
  /\ "customerDetails" \in DOMAIN b
  /\ "amount" \in DOMAIN b
  /\ "cartItems" \in DOMAIN b => (b.cartItems.length = 0 \/ b.cartItems.isArray)

IsSettled(c) == c.outcome \in {"resolved", "rejected"}

----------------------------------------------------------------------------
\* C1: a payment-success request whose supplied signature differs from the
\* computed one is answered 400 {success:false, message:"Invalid signature"},
\* once, and no mail-send call is ever made for it.
C1_MismatchRejectedNoMail ==
  \A r \in Req :
    (IsPayment(r) /\ ~ SuppliedMatches(body[r])) =>
      /\ responses[r] = <<InvalidSignature>>
      /\ MailCalls(r) = {}
      /\ pc[r] = "done"

C1_Witness ==
  \E r \in Req :
    /\ IsPayment(r)
    /\ "razorpaySignature" \in DOMAIN body[r]
    /\ ~ SuppliedMatches(body[r])
    /\ MailsBuild(body[r])
    /\ responses[r] = <<InvalidSignature>>

C3_AcceptsIffGatewaySignature ==
  \A r \in Req :
    IsPayment(r) =>
      (responses[r] = <<InvalidSignature>>  <=>  ~ SuppliedMatches(body[r]))

C3_Witness ==
  /\ \E r \in Req :
       /\ IsPayment(r)
       /\ SuppliedMatches(body[r])
       /\ body[r].razorpayOrderId # body[r].razorpayPaymentId
       /\ responses[r] # <<InvalidSignature>>
  /\ \E r \in Req :
       /\ IsPayment(r)
       /\ "razorpaySignature" \in DOMAIN body[r]
       /\ body[r].razorpaySignature =
            <<"hmac-sha256", <<GatewaySecret>>,
              body[r].razorpayPaymentId \o <<"|">> \o body[r].razorpayOrderId>>
       /\ body[r].razorpayOrderId # body[r].razorpayPaymentId
       /\ responses[r] = <<InvalidSignature>>

\* C4: in the payment-success handler the customer send comes first, and once
\* it has settled, resolved or rejected, the admin send has been attempted;
\* no later step, a rejected admin send included, changes the record of the
\* customer send.
C4_AdminSendAttempted ==
  \A r \in Req :
    (IsPayment(r) /\ calls[r] # <<>>) =>
      /\ calls[r][1].to = "customer"
      /\ IsSettled(calls[r][1]) =>
           /\ Len(calls[r]) = 2
           /\ calls[r][2].op = "transporter.sendMail"
           /\ calls[r][2].to = "admin"

C4_CustomerSendKept ==
  \A r \in Req :
    (IsPayment(r) /\ calls[r] # <<>> /\ IsSettled(calls[r][1])) =>
      (calls'[r] # <<>> /\ calls'[r][1] = calls[r][1])

C4_SendsIsolated == [] C4_AdminSendAttempted /\ [][C4_CustomerSendKept]_vars

C4_Witness ==
  \E r \in Req :
    /\ IsPayment(r)
    /\ Len(calls[r]) = 2
    /\ calls[r][1].outcome = "rejected"
    /\ calls[r][2].to = "admin"
    /\ calls[r][2].outcome = "rejected"

\* C5: in the contact handler, when the admin send rejects, the user
\* confirmation send is never attempted and the response is 500; the user
\* send is attempted only after the admin send resolved.
C5_AdminFailureStopsContact ==
  \A r \in Req :
    (IsContact(r) /\ calls[r] # <<>>) =>
      /\ calls[r][1].to = "admin"
      /\ calls[r][1].outcome = "rejected" =>
           /\ Len(calls[r]) = 1
           /\ Len(responses[r]) = 1
           /\ responses[r][1].status = 500
      /\ Len(calls[r]) > 1 =>
           /\ calls[r][1].outcome = "resolved"
           /\ calls[r][2].to = "user"

C5_Witness ==
  \E r \in Req :
    /\ IsContact(r)
    /\ Len(calls[r]) = 1
    /\ calls[r][1].outcome = "rejected"
    /\ pc[r] = "done"

\* C6: the contact handler answers 200 {success:true, message} only if both
\* sends resolved; if a send rejects, or building the mails throws, it
\* answers 500 {success:false, ...}, also when the admin mail was delivered
\* before the user send rejected.
BothSendsResolved(r) ==
  /\ Len(calls[r]) = 2
  /\ calls[r][1].outcome = "resolved"
  /\ calls[r][2].outcome = "resolved"

C6_ContactAllOrNothing ==
  \A r \in Req :
    (IsContact(r) /\ pc[r] = "done") =>
      /\ Len(responses[r]) = 1
      /\ responses[r][1].status \in {200, 500}
      /\ responses[r][1].status = 200 =>
           /\ BothSendsResolved(r)
           /\ responses[r][1].success = TRUE
      /\ ~ BothSendsResolved(r) =>
           /\ responses[r][1].status = 500
           /\ responses[r][1].success = FALSE

C6_Witness ==
  \E r \in Req :
    /\ IsContact(r)
    /\ pc[r] = "done"
    /\ Len(calls[r]) = 2
    /\ calls[r][1].outcome = "resolved"
    /\ calls[r][2].outcome = "rejected"
    /\ responses[r][1].status = 500

\* C7: a create-order request calls the gateway's order creation at most
\* once; when the call resolves the response is 200 with the gateway's order
\* object as it is, when it rejects the response is 500 {error, details} with
\* the message of the error.
C7_CreateOrderOnce ==
  \A r \in Req :
    IsCreateOrder(r) =>
      /\ Len(calls[r]) <= 1
      /\ \A i \in 1..Len(calls[r]) : calls[r][i].op = "razorpay.orders.create"
      /\ (calls[r] # <<>> /\ calls[r][1].outcome = "resolved") =>
           responses[r] = <<[status |-> 200, json |-> calls[r][1].value]>>
      /\ (calls[r] # <<>> /\ calls[r][1].outcome = "rejected") =>
           responses[r] = <<[status |-> 500, error |-> "Failed to create order",
                             details |-> calls[r][1].value.message]>>

C7_Witness ==
  /\ \E r \in Req :
       IsCreateOrder(r) /\ calls[r] # <<>> /\ calls[r][1].outcome = "rejected"
  /\ \E r \in Req :
       IsCreateOrder(r) /\ calls[r] # <<>> /\ calls[r][1].outcome = "resolved"

\* C8: the process exits with a non-zero code, before serving a request, if
\* the gateway key id or the gateway secret is absent; with both present it
\* does not exit but goes on to listen, logging a warning when the mail
\* account or the mail credential is missing.
GatewayCredentialsPresent ==
  env.RAZORPAY_KEY_ID # Undefined /\ env.RAZORPAY_SECRET # Undefined

MailCredentialsPresent ==
  env.EMAIL_USER # Undefined /\ env.EMAIL_PASSWORD # Undefined

C8_StartupContract ==
  /\ (~ GatewayCredentialsPresent /\ phase # "checkRazorpay") =>
       /\ phase = "exited"
       /\ exitCode # 0
       /\ \A r \in Req : kind[r] = "none"
  /\ GatewayCredentialsPresent =>
       /\ phase # "exited"
       /\ phase \in {"registerRoutes", "listen", "listening"} =>
            (warned <=> ~ MailCredentialsPresent)

\* C9: requests are handled independently.  Two requests on the same route
\* with the same body whose own calls settled alike have made the same calls
\* and have the same response, whatever ran in between; and a step changes
\* the body, calls, position and responses of one request at most.
OwnOutcomes(r) ==
  [i \in 1..Len(calls[r]) |-> <<calls[r][i].outcome, calls[r][i].value>>]

C9_SameInputsSameResult ==
  \A r1, r2 \in Req :
    (/\ kind[r1] # "none"
     /\ kind[r1] = kind[r2]
     /\ body[r1] = body[r2]
     /\ OwnOutcomes(r1) = OwnOutcomes(r2)) =>
      /\ calls[r1] = calls[r2]
      /\ responses[r1] = responses[r2]
      /\ pc[r1] = pc[r2]

RequestState(r) == <<kind[r], body[r], pc[r], calls[r], responses[r]>>

C9_OneRequestPerStep ==
  \A r1, r2 \in Req :
    (RequestState(r1)' # RequestState(r1) /\ RequestState(r2)' # RequestState(r2))
      => r1 = r2

C9_Independent == [] C9_SameInputsSameResult /\ [][C9_OneRequestPerStep]_vars

C9_Witness ==
  \E r1, r2 \in Req :
    /\ r1 # r2
    /\ IsPayment(r1) /\ IsPayment(r2)
    /\ body[r1] = body[r2]
    /\ pc[r1] = "done" /\ pc[r2] = "done"
    /\ Len(calls[r1]) = 2
    /\ OwnOutcomes(r1) = OwnOutcomes(r2)

\* C10, the safety part common to the claim as stated and as amended: a
\* request has at most one response, and has it exactly when its handler has
\* finished.
ExactlyOneResponse ==
  \A r \in Req :
    /\ Len(responses[r]) <= 1
    /\ pc[r] = "done" <=> Len(responses[r]) = 1
    /\ pc[r] = "idle" => kind[r] = "none"

\* the response is eventually sent, the awaited calls settling
EventuallyAnswered ==
  \A r \in Req : (kind[r] # "none") ~> (Len(responses[r]) = 1)

BothSendsSettledInOrder(r) ==
  /\ Len(calls[r]) = 2
  /\ calls[r][1].to = "customer" /\ IsSettled(calls[r][1])
  /\ calls[r][2].to = "admin" /\ IsSettled(calls[r][2])

\* C10 as stated: with a matching signature the response is sent only after
\* both send attempts have settled.
C10_OriginalOrder ==
  \A r \in Req :
    (IsPayment(r) /\ SuppliedMatches(body[r]) /\ responses[r] # <<>>) =>
      BothSendsSettledInOrder(r)

C10_AmendedOrder ==
  \A r \in Req :
    (IsPayment(r) /\ SuppliedMatches(body[r]) /\ MailsBuild(body[r])) =>
      /\ responses[r] # <<>> => BothSendsSettledInOrder(r)
      /\ Len(calls[r]) = 2 => IsSettled(calls[r][1])

====
